---- MODULE Spec2Model ----
(***************************************************************************)
(* A model of yt_download.py: the speed-history store (save_last_speed,    *)
(* load_last_speed), the format selector (pick_video_format), and the      *)
(* session (main, download_video_audio, merge_video_audio with its ETA     *)
(* thread, rename_folder).                                                 *)
(*                                                                         *)
(* Python's None is the empty sequence and a present value v is <<v>>.     *)
(* Text is a sequence of character codes.  Floats that the code computes   *)
(* as quotients of integers are kept as exact fractions [num, den].        *)
(***************************************************************************)
EXTENDS Integers, Sequences, FiniteSets, TLC

VARIABLES
    \* ---- the speed file, last_speed.txt
    fileExists,     \* os.path.exists(LAST_SPEED_FILE)
    fileLines,      \* the lines of the file, each a sequence of character codes
    recorded,       \* history: every speed passed to save_last_speed, in order
    ioFailures,     \* history: number of I/O exceptions swallowed so far
    loadState,      \* "idle" | "returned" | "failed": load_last_speed's outcome
    ret,            \* what load_last_speed returned
    \* ---- pick_video_format
    formats,            \* the stream descriptors passed in
    duration_sec,       \* the duration passed in, None when unknown
    download_speed_bps, \* the representative speed passed in, None when unknown
    pickState,          \* "idle" | "start" | "prompt" | "returned"
    best_formats,       \* per target resolution: None or the candidate
    rows,               \* the four rows printed under "Select video resolution:"
    lastInput,          \* the text last entered at the resolution prompt
    lastReply,          \* "none" | "unavailable" | "invalid": what the prompt answered
    chosen,             \* the candidate pick_video_format returned, None before
    \* ---- one run of main
    pc,             \* where the main flow stands; "raised" after an uncaught exception
    choice,         \* the mode entered, stripped
    video_fmt,      \* the format id pick_video_format returned, None when not asked
    video_title,    \* the title extract_info gave
    parentEntries,  \* names present in RAW_PATH, next to the output directory
    dirName,        \* the output directory's current name
    dirFiles,       \* the files in the output directory
    downloads,      \* history: the streams downloaded, in order
    removed,        \* history: the files os.remove deleted
    mergeCalled,    \* history: merge_video_audio was entered
    nvenc,          \* hardware encode detected
    codec_name,     \* the probed codec, None when the probe failed
    prompted,       \* history: the re-encode confirmation was shown
    answer,         \* the text entered at that confirmation
    video_codec,    \* the encoder picked for the re-encode
    launched,       \* history: the ffmpeg runs launched, by their video codec argument
    proc,           \* "none" | "running" | "ok" | "failed": the ffmpeg process
    stop_thread,    \* the flag the ETA thread tests
    eta,            \* "none" | "check" | "sleep" | "done": the ETA thread
    etaShown,       \* an ETA line has been printed
    log,            \* the messages printed by the merge and the rename
    error           \* the exception that stopped the run, "none" otherwise

storeVars == <<fileExists, fileLines, recorded, ioFailures, loadState, ret>>
pickVars == <<formats, duration_sec, download_speed_bps, pickState, best_formats,
              rows, lastInput, lastReply, chosen>>

sessVars == <<pc, choice, video_fmt, video_title, parentEntries, dirName, dirFiles,
              downloads, removed, mergeCalled, nvenc, codec_name, prompted, answer,
              video_codec, launched, proc, stop_thread, eta, etaShown, log, error>>

vars == <<storeVars, pickVars, sessVars>>

None == <<>>
Some(v) == <<v>>

Max(a, b) == IF a >= b THEN a ELSE b
Min(a, b) == IF a <= b THEN a ELSE b

RECURSIVE SumSeq(_)
SumSeq(s) == IF s = <<>> THEN 0 ELSE s[1] + SumSeq(Tail(s))

-----------------------------------------------------------------------------
(* Bounds of the model *)

\* save_last_speed is called at most this many times in one behaviour
MaxCalls == 11
\* at most this many swallowed I/O exceptions in one behaviour
MaxFailures == 1
\* the speed file read by load_last_speed holds at most this many lines
MaxLines == 4
\* pick_video_format is given at most this many stream descriptors
MaxFormats == 3

\* speeds passed to save_last_speed
SpeedInputs == {7, 120}

\* texts entered at the mode prompt: "1".."4", " 2", "5", "x"
ModeInputs == {<<48 + k>> : k \in 1..5} \cup {<<32, 50>>, <<120>>}
\* texts entered at the re-encode confirmation: "y", "Y", " y ", "n", "yes", ""
AnswerInputs == {<<121>>, <<89>>, <<32, 121, 32>>, <<110>>, <<121, 101, 115>>, <<>>}
\* titles extract_info may give, and names already present in RAW_PATH
Titles == {"clip", "talk"}
\* the name strftime gives the output directory
Timestamp == "2024-01-01_00-00-00"
\* format ids pick_video_format may return
SessionFormats == {"137", "313"}
\* codecs ffprobe may report
Codecs == {"h264", "hevc", "vp9", "av1"}

-----------------------------------------------------------------------------
(* Text: f"{s}\n", line.strip().isdigit(), int(line.strip()) *)

Char0 == 48
CharMinus == 45

RECURSIVE Digits(_)
Digits(n) == IF n < 10 THEN <<Char0 + n>> ELSE Append(Digits(n \div 10), Char0 + (n % 10))

\* f"{s}" for an int s (the newline is the line break itself)
FormatLine(s) == IF s < 0 THEN <<CharMinus>> \o Digits(-s) ELSE Digits(s)

\* str.isdigit(): non-empty and every character a digit
IsDigit(line) == Len(line) > 0 /\ \A i \in 1..Len(line) : line[i] \in Char0..(Char0 + 9)

RECURSIVE ParseInt(_)
ParseInt(line) ==
    IF line = <<>> THEN 0
    ELSE 10 * ParseInt(SubSeq(line, 1, Len(line) - 1)) + (line[Len(line)] - Char0)

\* [int(line.strip()) for line in f if line.strip().isdigit()]
RECURSIVE ReadSpeeds(_)
ReadSpeeds(lines) ==
    IF lines = <<>> THEN <<>>
    ELSE IF IsDigit(lines[1]) THEN <<ParseInt(lines[1])>> \o ReadSpeeds(Tail(lines))
    ELSE ReadSpeeds(Tail(lines))

\* for s in speeds: f.write(f"{s}\n")
WriteSpeeds(speeds) == [i \in 1..Len(speeds) |-> FormatLine(speeds[i])]

-----------------------------------------------------------------------------
(* save_last_speed *)

MAX_SPEEDS == 10

\* speeds[-n:]
LastN(s, n) == IF Len(s) <= n THEN s ELSE SubSeq(s, Len(s) - n + 1, Len(s))

TruncateNoLimit(speeds) == speeds
TruncateSpeeds(speeds) == LastN(speeds, MAX_SPEEDS)

\* One call of save_last_speed(speed_bps).  readFails: the read raises and is
\* swallowed (speeds stays []).  writeFails: open(..., "w") raises and is
\* swallowed (the file is left as it was).
save_last_speed(speed_bps, readFails, writeFails) ==
    LET loaded == IF fileExists /\ ~readFails THEN ReadSpeeds(fileLines) ELSE <<>>
        speeds == TruncateSpeeds(Append(loaded, speed_bps))
        nfail  == (IF readFails THEN 1 ELSE 0) + (IF writeFails THEN 1 ELSE 0)
    IN  /\ Len(recorded) < MaxCalls
        /\ readFails => fileExists
        /\ ioFailures + nfail <= MaxFailures
        /\ recorded' = Append(recorded, speed_bps)
        /\ ioFailures' = ioFailures + nfail
        /\ IF writeFails
             THEN UNCHANGED <<fileExists, fileLines>>
             ELSE fileExists' = TRUE /\ fileLines' = WriteSpeeds(speeds)
        /\ UNCHANGED <<loadState, ret>>
        /\ UNCHANGED <<pickVars, sessVars>>

SaveLastSpeed ==
    \E s \in SpeedInputs, rf \in BOOLEAN, wf \in BOOLEAN : save_last_speed(s, rf, wf)

-----------------------------------------------------------------------------
(* load_last_speed *)

min_bin == 50000

\* bin_speed_dynamic(speed, avg_speed), avg_speed = total / count kept exact;
\* int(avg_speed * 0.05) is the floor of total * 5 / (count * 100)
bin_size_of(total, count) == Max(min_bin, (total * 5) \div (count * 100))

bin_speed_dynamic(speed, total, count) ==
    LET bin_size == bin_size_of(total, count)
    IN  ((speed + bin_size \div 2) \div bin_size) * bin_size

\* Counter(binned_speeds): keys in first-insertion order, each with its count
RECURSIVE CounterOf(_, _)
CounterOf(items, acc) ==
    IF items = <<>> THEN acc
    ELSE LET x == items[1]
             hit == {i \in 1..Len(acc) : acc[i].key = x}
         IN  IF hit = {}
               THEN CounterOf(Tail(items), Append(acc, [key |-> x, count |-> 1]))
               ELSE CounterOf(Tail(items),
                      [i \in 1..Len(acc) |->
                         IF i \in hit THEN [key |-> x, count |-> acc[i].count + 1]
                         ELSE acc[i]])

\* counter.most_common(1)[0]: max() over the items by count keeps the first
\* maximal item it meets
RECURSIVE MaxByCountLast(_, _)
MaxByCountLast(items, best) ==
    IF items = <<>> THEN best
    ELSE MaxByCountLast(Tail(items),
                        IF items[1].count >= best.count THEN items[1] ELSE best)
RECURSIVE MaxByCount(_, _)
MaxByCount(items, best) ==
    IF items = <<>> THEN best
    ELSE MaxByCount(Tail(items),
                    IF items[1].count > best.count THEN items[1] ELSE best)

most_common_last(counter) == MaxByCountLast(Tail(counter), counter[1])
most_common(counter) == MaxByCount(Tail(counter), counter[1])

\* the value load_last_speed returns when no exception is raised
load_value(exists, lines) ==
    IF ~exists THEN None
    ELSE LET speeds == ReadSpeeds(lines)
         IN  IF speeds = <<>> THEN None
             ELSE LET total == SumSeq(speeds)
                      binned_speeds ==
                          [i \in 1..Len(speeds) |->
                              bin_speed_dynamic(speeds[i], total, Len(speeds))]
                      counter == CounterOf(binned_speeds, <<>>)
                  IN  Some(most_common(counter).key)

\* One call of load_last_speed().  fails: the read raises, the handler prints
\* and returns None.
load_last_speed(fails) ==
    /\ loadState = "idle"
    /\ fails => fileExists
    /\ loadState' = IF fails THEN "failed" ELSE "returned"
    /\ ret' = IF fails THEN None ELSE load_value(fileExists, fileLines)
    /\ UNCHANGED <<fileExists, fileLines, recorded, ioFailures>>
    /\ UNCHANGED <<pickVars, sessVars>>

LoadLastSpeed == \E fails \in BOOLEAN : load_last_speed(fails)

-----------------------------------------------------------------------------
(* estimate_size and pick_video_format *)

CharSpace == 32

\* str(x) for an int or None
PyStr(x) == IF x = None THEN <<78, 111, 110, 101>> ELSE FormatLine(x[1])

\* "x or 0", and the truth value of an optional number
OrZero(x) == IF x = None THEN 0 ELSE x[1]
Truthy(x) == x # None /\ x[1] # 0

targets == << [res |-> Digits(4320), name |-> "   8K"],
              [res |-> Digits(2160), name |-> "   4K"],
              [res |-> Digits(1440), name |-> "1440p"],
              [res |-> Digits(1080), name |-> "1080p"] >>

TargetRes == {targets[i].res : i \in 1..Len(targets)}

\* estimate_size(format_info, duration_sec): an optional number of bytes
estimate_size(format_info, duration) ==
    IF format_info.filesize # None THEN format_info.filesize
    ELSE IF format_info.filesize_approx # None THEN format_info.filesize_approx
    ELSE IF Truthy(format_info.tbr) /\ Truthy(duration)
         THEN Some((duration[1] * format_info.tbr[1] * 1000) \div 8)
    ELSE None

\* a size in bytes as an exact fraction
Whole(x) == IF x = None THEN None ELSE Some([num |-> x[1], den |-> 1])

\* "bf is None or fps > bf['fps']"
TakesOverOnTie(bf, fps) == bf = None \/ fps >= bf[1].fps
TakesOver(bf, fps) == bf = None \/ fps > bf[1].fps

\* the loop "for f in formats": best_formats and size_estimates after it
RECURSIVE ScanFormats(_, _, _, _)
ScanFormats(fs, duration, best, sizes) ==
    IF fs = <<>> THEN [best |-> best, sizes |-> sizes]
    ELSE LET f == fs[1]
             h == PyStr(f.height)
             fps == OrZero(f.fps)
         IN  IF f.vcodec = "none" THEN ScanFormats(Tail(fs), duration, best, sizes)
             ELSE IF h \notin DOMAIN best THEN ScanFormats(Tail(fs), duration, best, sizes)
             ELSE LET est_size == estimate_size(f, duration)
                      sizes2 == IF est_size # None
                                  THEN [sizes EXCEPT ![h] = Append(@, est_size[1])]
                                  ELSE sizes
                      best2 == IF TakesOver(best[h], fps)
                                 THEN [best EXCEPT ![h] =
                                         Some([format_id |-> f.format_id,
                                               fps |-> fps,
                                               ext |-> f.ext,
                                               filesize |-> Whole(est_size),
                                               vcodec |-> f.vcodec])]
                                 ELSE best
                  IN  ScanFormats(Tail(fs), duration, best2, sizes2)

\* the loop "for res in size_estimates": the candidate's filesize becomes the
\* mean of the estimates seen for its resolution
KeepChosenSize(best, sizes) == best
AverageSizes(best, sizes) ==
    [res \in DOMAIN best |->
        IF sizes[res] # <<>> /\ best[res] # None
          THEN Some([best[res][1] EXCEPT
                       !.filesize = Some([num |-> SumSeq(sizes[res]),
                                          den |-> Len(sizes[res])])])
          ELSE best[res]]

\* what a printed field shows: nothing, the text "N/A", or a number
NotShown == [shown |-> "none", a |-> 0, b |-> 0]
ShownNA == [shown |-> "N/A", a |-> 0, b |-> 0]
ShownNumber(a, b) == [shown |-> "number", a |-> a, b |-> b]

\* sizeof_fmt(num): f"{num:.1f}{unit}B", kept as the tenths and the unit index
\* (1 = '', 2 = 'K', ... 6 = 'P', 7 = 'Y'); num is the fraction n / d
\* n / d to one decimal, in tenths, as ".1f" rounds it (halves go to the even digit)
RoundTenths(n, d) ==
    LET q == (10 * n) \div d
        twice == 2 * ((10 * n) % d)
    IN  IF twice > d \/ (twice = d /\ q % 2 = 1) THEN q + 1 ELSE q

RECURSIVE SizeLoop(_, _, _)
SizeLoop(n, d, unit) ==
    IF unit <= 6 /\ n \div d >= 1024 THEN SizeLoop(n, d * 1024, unit + 1)
    ELSE ShownNumber(RoundTenths(n, d), unit)

sizeof_fmt(num) == IF num = None THEN ShownNA ELSE SizeLoop(num[1].num, num[1].den, 1)

\* f"{est_min}m {est_sec_remainder}s" for est_sec = n / d seconds
MinSec(n, d) == ShownNumber(n \div (60 * d), (n \div d) % 60)

\* the two time estimates of a row: (size / speed) * 1.5 and (size / speed) / 1.5
\* when both size and speed are truthy, else "N/A" twice
TimeEstimatesSpeedOpt(size_bytes, speed) ==
    IF size_bytes # None /\ size_bytes[1].num # 0
      THEN LET n == size_bytes[1].num
               d == size_bytes[1].den * (IF Truthy(speed) THEN speed[1] ELSE 1)
           IN  [slow |-> MinSec(3 * n, 2 * d), fast |-> MinSec(2 * n, 3 * d)]
      ELSE [slow |-> ShownNA, fast |-> ShownNA]
TimeEstimates(size_bytes, speed) ==
    IF size_bytes # None /\ size_bytes[1].num # 0 /\ Truthy(speed)
      THEN LET n == size_bytes[1].num
               d == size_bytes[1].den * speed[1]
           IN  [slow |-> MinSec(3 * n, 2 * d), fast |-> MinSec(2 * n, 3 * d)]
      ELSE [slow |-> ShownNA, fast |-> ShownNA]

\* the rows printed by "for i, (res, name) in enumerate(targets, 1)"
PrintRows(best, speed) ==
    [i \in 1..Len(targets) |->
        LET fmt == best[targets[i].res]
        IN  IF fmt # None
              THEN LET est == TimeEstimates(fmt[1].filesize, speed)
                   IN  [name |-> targets[i].name, available |-> TRUE,
                        fps |-> fmt[1].fps, size |-> sizeof_fmt(fmt[1].filesize),
                        slow |-> est.slow, fast |-> est.fast]
              ELSE [name |-> targets[i].name, available |-> FALSE,
                    fps |-> 0, size |-> NotShown, slow |-> NotShown, fast |-> NotShown]]

\* pick_video_format up to its first prompt
ScanAndPrint ==
    /\ pickState = "start"
    /\ LET scanned == ScanFormats(formats, duration_sec,
                                  [res \in TargetRes |-> None],
                                  [res \in TargetRes |-> <<>>])
           best == AverageSizes(scanned.best, scanned.sizes)
       IN  /\ best_formats' = best
           /\ rows' = PrintRows(best, download_speed_bps)
    /\ pickState' = "prompt"
    /\ UNCHANGED <<formats, duration_sec, download_speed_bps, lastInput, lastReply, chosen>>
    /\ UNCHANGED <<storeVars, sessVars>>

\* str.strip()
RECURSIVE StripLeft(_)
StripLeft(s) == IF s # <<>> /\ s[1] = CharSpace THEN StripLeft(Tail(s)) ELSE s
RECURSIVE StripRight(_)
StripRight(s) ==
    IF s # <<>> /\ s[Len(s)] = CharSpace THEN StripRight(SubSeq(s, 1, Len(s) - 1)) ELSE s
Strip(s) == StripRight(StripLeft(s))

\* choice in {'1','2','3','4'}
IsMenuChoice(text) == Len(text) = 1 /\ text[1] \in (Char0 + 1)..(Char0 + 4)

\* one round of "while True": input(...), then return or print and loop
resolution_prompt(input) ==
    /\ pickState = "prompt"
    /\ lastInput' = input
    /\ LET entered == Strip(input)
       IN  IF IsMenuChoice(entered)
             THEN LET chosen_res == targets[ParseInt(entered)].res
                  IN  IF best_formats[chosen_res] # None
                        THEN /\ chosen' = best_formats[chosen_res]
                             /\ pickState' = "returned"
                             /\ lastReply' = "accepted"
                        ELSE /\ lastReply' = "unavailable"
                             /\ UNCHANGED <<pickState, chosen>>
             ELSE /\ lastReply' = "invalid"
                  /\ UNCHANGED <<pickState, chosen>>
    /\ UNCHANGED <<formats, duration_sec, download_speed_bps, best_formats, rows>>
    /\ UNCHANGED <<storeVars, sessVars>>

\* texts entered at the prompt: "1".."4", " 4 ", "5", "x", "12", ""
ChoiceInputs ==
    {<<Char0 + k>> : k \in 1..5} \cup
    {<<CharSpace, Char0 + 4, CharSpace>>, <<120>>, <<Char0 + 1, Char0 + 2>>, <<>>}

ResolutionPrompt == \E input \in ChoiceInputs : resolution_prompt(input)

PickIdle ==
    /\ formats = <<>>
    /\ duration_sec = None
    /\ download_speed_bps = None
    /\ pickState = "idle"
    /\ best_formats = [res \in TargetRes |-> None]
    /\ rows = <<>>
    /\ lastInput = <<>>
    /\ lastReply = "none"
    /\ chosen = None
-----------------------------------------------------------------------------
(* main, download_video_audio, merge_video_audio, rename_folder *)

\* str.lower()
Lower(s) == [i \in 1..Len(s) |-> IF s[i] \in 65..90 THEN s[i] + 32 ELSE s[i]]

\* a file of the output directory
File(base, ext) == [base |-> base, ext |-> ext]

temp_video == File("temp_video", "mp4")
temp_audio == File("temp_audio", "m4a")
final_output == File(video_title, "mp4")

\* the flags main derives from the mode entered
ModeIs(k) == choice = <<Char0 + k>>
do_video == ModeIs(1) \/ ModeIs(2) \/ ModeIs(3)
do_audio == ModeIs(1) \/ ModeIs(2) \/ ModeIs(4)
do_join == ModeIs(1)
video_only == ModeIs(3)

\* an uncaught exception: the run stops where it is
Raise(what) == pc' = "raised" /\ error' = what

\* main, lines 299-316: one round of the mode prompt; a valid mode leaves the
\* loop and load_last_speed() is called (None when its read fails)
mode_prompt(input, loadFails) ==
    /\ pc = "mode"
    /\ choice' = Strip(input)
    /\ IF IsMenuChoice(Strip(input))
         THEN /\ loadFails => fileExists
              /\ download_speed_bps' =
                   IF loadFails THEN None ELSE load_value(fileExists, fileLines)
              /\ pc' = IF Strip(input)[1] \in (Char0 + 1)..(Char0 + 3)
                         THEN "fetch" ELSE "prepare"
         ELSE /\ ~loadFails
              /\ UNCHANGED <<download_speed_bps, pc>>
    /\ UNCHANGED <<video_fmt, video_title, parentEntries, dirName, dirFiles, downloads,
                   removed, mergeCalled, nvenc, codec_name, prompted, answer, video_codec,
                   launched, proc, stop_thread, eta, etaShown, log, error>>
    /\ UNCHANGED storeVars
    /\ UNCHANGED <<formats, duration_sec, pickState, best_formats, rows, lastInput,
                   lastReply, chosen>>

ModePrompt ==
    \E input \in ModeInputs, loadFails \in BOOLEAN : mode_prompt(input, loadFails)

\* main, lines 321-324: get_video_formats(url) and pick_video_format(...); the
\* format the user ends up with is any of the stream ids
FetchAndPick ==
    /\ pc = "fetch"
    /\ \/ \E id \in SessionFormats : video_fmt' = Some(id) /\ pc' = "prepare" /\ UNCHANGED error
       \/ Raise("extract_info") /\ UNCHANGED video_fmt
    /\ UNCHANGED <<choice, video_title, parentEntries, dirName, dirFiles, downloads,
                   removed, mergeCalled, nvenc, codec_name, prompted, answer, video_codec,
                   launched, proc, stop_thread, eta, etaShown, log>>
    /\ UNCHANGED <<storeVars, pickVars>>

\* download_video_audio, lines 229-236 and the branch taken at 236, 255, 261
BranchOf ==
    IF do_join /\ do_audio /\ ~video_only THEN "j_video"
    ELSE IF video_only THEN "v_download"
    ELSE IF do_audio /\ ~video_only THEN "a_download"
    ELSE "rename"

Prepare ==
    /\ pc = "prepare"
    /\ dirName' = Timestamp
    /\ parentEntries' = parentEntries \cup {Timestamp}
    /\ \/ \E t \in Titles : video_title' = t /\ pc' = BranchOf /\ UNCHANGED error
       \/ Raise("extract_info") /\ UNCHANGED video_title
    /\ UNCHANGED <<choice, video_fmt, dirFiles, downloads, removed, mergeCalled, nvenc,
                   codec_name, prompted, answer, video_codec, launched, proc, stop_thread,
                   eta, etaShown, log>>
    /\ UNCHANGED <<storeVars, pickVars>>

\* one ydl.download([url]) writing file f, or raising
Download(at, stream, f, next) ==
    /\ pc = at
    /\ \/ /\ downloads' = Append(downloads, stream)
          /\ dirFiles' = dirFiles \cup {f}
          /\ pc' = next
          /\ UNCHANGED error
       \/ Raise("download") /\ UNCHANGED <<downloads, dirFiles>>
    /\ UNCHANGED <<choice, video_fmt, video_title, parentEntries, dirName, removed,
                   mergeCalled, nvenc, codec_name, prompted, answer, video_codec, launched,
                   proc, stop_thread, eta, etaShown, log>>
    /\ UNCHANGED <<storeVars, pickVars>>

\* lines 241-249
JoinedDownloadVideo == Download("j_video", "video", temp_video, "j_audio")
JoinedDownloadAudio == Download("j_audio", "audio", temp_audio, "m_probe")
\* lines 255-259: the extension is the chosen stream's
VideoOnlyDownload ==
    \E ext \in {"mp4", "webm"} :
        Download("v_download", "video", File(video_title, ext), "rename")
\* lines 261-272
AudioDownload == Download("a_download", "audio", File(video_title, "m4a"), "a_convert")

\* lines 275-278: ffmpeg converts to wav (check=True), then the m4a is removed
AudioConvert ==
    /\ pc = "a_convert"
    /\ launched' = Append(launched, "wav")
    /\ \/ /\ dirFiles' = (dirFiles \cup {File(video_title, "wav")}) \ {File(video_title, "m4a")}
          /\ removed' = removed \cup {File(video_title, "m4a")}
          /\ log' = log \cup {"conversion_complete"}
          /\ pc' = "rename"
          /\ UNCHANGED error
       \/ Raise("ffmpeg") /\ UNCHANGED <<dirFiles, removed, log>>
    /\ UNCHANGED <<choice, video_fmt, video_title, parentEntries, dirName, downloads,
                   mergeCalled, nvenc, codec_name, prompted, answer, video_codec, proc,
                   stop_thread, eta, etaShown>>
    /\ UNCHANGED <<storeVars, pickVars>>

\* merge_video_audio, lines 171-179: gpu_supports_nvenc_nvdec() and the ffprobe
\* of the video file (None when the probe fails)
MergeProbe ==
    /\ pc = "m_probe"
    /\ mergeCalled' = TRUE
    /\ nvenc' \in BOOLEAN
    /\ codec_name' \in {Some(c) : c \in Codecs} \cup {None}
    /\ pc' = "m_decide"
    /\ UNCHANGED <<choice, video_fmt, video_title, parentEntries, dirName, dirFiles,
                   downloads, removed, prompted, answer, video_codec, launched, proc,
                   stop_thread, eta, etaShown, log, error>>
    /\ UNCHANGED <<storeVars, pickVars>>

\* codec_name in ('h264','hevc')
IsGpuFriendlyH264Only(codec) == codec = Some("h264")
IsGpuFriendly(codec) == codec \in {Some("h264"), Some("hevc")}

\* lines 182-196 up to the next blocking call: the remux is launched, or the
\* prompt is shown, or the software encoder is picked
MergeDecide ==
    /\ pc = "m_decide"
    /\ IF nvenc /\ IsGpuFriendly(codec_name)
         THEN /\ log' = log \cup {"remuxing"}
              /\ launched' = Append(launched, "copy")
              /\ proc' = "running"
              /\ pc' = "m_remux_wait"
              /\ UNCHANGED video_codec
         ELSE IF nvenc
         THEN /\ pc' = "m_prompt"
              /\ UNCHANGED <<log, launched, proc, video_codec>>
         ELSE /\ log' = log \cup {"using_cpu"}
              /\ video_codec' = "libx264"
              /\ pc' = "m_start"
              /\ UNCHANGED <<launched, proc>>
    /\ UNCHANGED <<choice, video_fmt, video_title, parentEntries, dirName, dirFiles,
                   downloads, removed, mergeCalled, nvenc, codec_name, prompted, answer,
                   stop_thread, eta, etaShown, error>>
    /\ UNCHANGED <<storeVars, pickVars>>

\* lines 189-193: the answer to "Re-encode with GPU? (y) ... (n)"
merge_prompt(input) ==
    /\ pc = "m_prompt"
    /\ prompted' = TRUE
    /\ answer' = input
    /\ IF Lower(Strip(input)) # <<121>>
         THEN /\ log' = log \cup {"aborting_merge"}
              /\ pc' = "j_rm_video"
              /\ UNCHANGED video_codec
         ELSE /\ video_codec' = "h264_nvenc"
              /\ pc' = "m_start"
              /\ UNCHANGED log
    /\ UNCHANGED <<choice, video_fmt, video_title, parentEntries, dirName, dirFiles,
                   downloads, removed, mergeCalled, nvenc, codec_name, launched, proc,
                   stop_thread, eta, etaShown, error>>
    /\ UNCHANGED <<storeVars, pickVars>>

MergePrompt == \E input \in AnswerInputs : merge_prompt(input)

\* lines 198-218: stop_thread = False, t.start()
MergeStartThread ==
    /\ pc = "m_start"
    /\ log' = log \cup {"merging"}
    /\ stop_thread' = FALSE
    /\ eta' = "check"
    /\ pc' = "m_launch"
    /\ UNCHANGED <<choice, video_fmt, video_title, parentEntries, dirName, dirFiles,
                   downloads, removed, mergeCalled, nvenc, codec_name, prompted, answer,
                   video_codec, launched, proc, etaShown, error>>
    /\ UNCHANGED <<storeVars, pickVars>>

\* lines 220-222: the transcode process is launched
MergeLaunch ==
    /\ pc = "m_launch"
    /\ launched' = Append(launched, video_codec)
    /\ proc' = "running"
    /\ pc' = "m_wait"
    /\ UNCHANGED <<choice, video_fmt, video_title, parentEntries, dirName, dirFiles,
                   downloads, removed, mergeCalled, nvenc, codec_name, prompted, answer,
                   video_codec, stop_thread, eta, etaShown, log, error>>
    /\ UNCHANGED <<storeVars, pickVars>>

\* the running ffmpeg creates its output file
ProcWrites ==
    /\ proc = "running"
    /\ final_output \notin dirFiles
    /\ dirFiles' = dirFiles \cup {final_output}
    /\ UNCHANGED <<pc, choice, video_fmt, video_title, parentEntries, dirName, downloads,
                   removed, mergeCalled, nvenc, codec_name, prompted, answer, video_codec,
                   launched, proc, stop_thread, eta, etaShown, log, error>>
    /\ UNCHANGED <<storeVars, pickVars>>

\* subprocess.run(..., check=True) returns: with status 0 the output exists and
\* the caller goes on (line 185 returns, line 224 follows 222); otherwise
\* CalledProcessError is raised and nothing after the call runs
ProcExits(ok) ==
    /\ pc \in {"m_remux_wait", "m_wait"}
    /\ proc = "running"
    /\ IF ok
         THEN /\ proc' = "ok"
              /\ dirFiles' = dirFiles \cup {final_output}
              /\ pc' = IF pc = "m_wait" THEN "m_set_stop" ELSE "j_rm_video"
              /\ UNCHANGED error
         ELSE /\ proc' = "failed"
              /\ Raise("ffmpeg")
              /\ UNCHANGED dirFiles
    /\ UNCHANGED <<choice, video_fmt, video_title, parentEntries, dirName, downloads,
                   removed, mergeCalled, nvenc, codec_name, prompted, answer, video_codec,
                   launched, stop_thread, eta, etaShown, log>>
    /\ UNCHANGED <<storeVars, pickVars>>

TranscodeExits == \E ok \in BOOLEAN : ProcExits(ok)

\* line 224
MergeSetStop ==
    /\ pc = "m_set_stop"
    /\ stop_thread' = TRUE
    /\ pc' = "m_join"
    /\ UNCHANGED <<choice, video_fmt, video_title, parentEntries, dirName, dirFiles,
                   downloads, removed, mergeCalled, nvenc, codec_name, prompted, answer,
                   video_codec, launched, proc, eta, etaShown, log, error>>
    /\ UNCHANGED <<storeVars, pickVars>>

\* lines 225-226: t.join() returns once the thread has ended
MergeJoin ==
    /\ pc = "m_join"
    /\ eta = "done"
    /\ log' = log \cup {"merge_completed"}
    /\ pc' = "j_rm_video"
    /\ UNCHANGED <<choice, video_fmt, video_title, parentEntries, dirName, dirFiles,
                   downloads, removed, mergeCalled, nvenc, codec_name, prompted, answer,
                   video_codec, launched, proc, stop_thread, eta, etaShown, error>>
    /\ UNCHANGED <<storeVars, pickVars>>

\* eta_thread, lines 206-214: the loop test and, when it passes, the ETA line
EtaCheck ==
    /\ eta = "check"
    /\ IF stop_thread
         THEN eta' = "done" /\ UNCHANGED etaShown
         ELSE /\ eta' = "sleep"
              /\ etaShown' = (etaShown \/ final_output \in dirFiles)
    /\ UNCHANGED <<pc, choice, video_fmt, video_title, parentEntries, dirName, dirFiles,
                   downloads, removed, mergeCalled, nvenc, codec_name, prompted, answer,
                   video_codec, launched, proc, stop_thread, log, error>>
    /\ UNCHANGED <<storeVars, pickVars>>

\* eta_thread, line 215: time.sleep(1) ends
EtaWake ==
    /\ eta = "sleep"
    /\ eta' = "check"
    /\ UNCHANGED <<pc, choice, video_fmt, video_title, parentEntries, dirName, dirFiles,
                   downloads, removed, mergeCalled, nvenc, codec_name, prompted, answer,
                   video_codec, launched, proc, stop_thread, etaShown, log, error>>
    /\ UNCHANGED <<storeVars, pickVars>>

\* download_video_audio, lines 252-253
RemoveTemp(at, f, next) ==
    /\ pc = at
    /\ dirFiles' = dirFiles \ {f}
    /\ removed' = removed \cup {f}
    /\ pc' = next
    /\ UNCHANGED <<choice, video_fmt, video_title, parentEntries, dirName, downloads,
                   mergeCalled, nvenc, codec_name, prompted, answer, video_codec, launched,
                   proc, stop_thread, eta, etaShown, log, error>>
    /\ UNCHANGED <<storeVars, pickVars>>

RemoveTempVideo == RemoveTemp("j_rm_video", temp_video, "j_rm_audio")
RemoveTempAudio == RemoveTemp("j_rm_audio", temp_audio, "rename")

\* rename_folder, line 282: the mp4 files, or else the wav files (every file
\* of the directory was written by this run with a lower-case extension)
Candidates(files) ==
    LET mp4 == {f \in files : f.ext = "mp4"}
    IN  IF mp4 # {} THEN mp4 ELSE {f \in files : f.ext = "wav"}

\* os.path.exists(new_folder_path)
NeverExists(base, entries) == FALSE
PathExists(base, entries) == base \in entries

\* rename_folder, lines 280-293; candidates[0] is whichever listdir puts first
RenameFolder ==
    /\ pc = "rename"
    /\ pc' = "done"
    /\ IF Candidates(dirFiles) = {}
         THEN /\ log' = log \cup {"no_output_found"}
              /\ UNCHANGED <<parentEntries, dirName>>
         ELSE \E first \in Candidates(dirFiles) :
                IF PathExists(first.base, parentEntries)
                  THEN /\ log' = log \cup {"exists_skipping_rename"}
                       /\ UNCHANGED <<parentEntries, dirName>>
                  ELSE /\ parentEntries' = (parentEntries \ {dirName}) \cup {first.base}
                       /\ dirName' = first.base
                       /\ log' = log \cup {"renamed"}
    /\ UNCHANGED <<choice, video_fmt, video_title, dirFiles, downloads, removed,
                   mergeCalled, nvenc, codec_name, prompted, answer, video_codec, launched,
                   proc, stop_thread, eta, etaShown, error>>
    /\ UNCHANGED <<storeVars, pickVars>>

SessIdle ==
    /\ pc = "idle"
    /\ choice = <<>>
    /\ video_fmt = None
    /\ video_title = "video"
    /\ parentEntries = {}
    /\ dirName = ""
    /\ dirFiles = {}
    /\ downloads = <<>>
    /\ removed = {}
    /\ mergeCalled = FALSE
    /\ nvenc = FALSE
    /\ codec_name = None
    /\ prompted = FALSE
    /\ answer = <<>>
    /\ video_codec = ""
    /\ launched = <<>>
    /\ proc = "none"
    /\ stop_thread = FALSE
    /\ eta = "none"
    /\ etaShown = FALSE
    /\ log = {}
    /\ error = "none"

-----------------------------------------------------------------------------
(* The speed store: calls of save_last_speed from absent or empty storage *)

InitStore ==
    /\ fileExists \in BOOLEAN
    /\ fileLines = <<>>
    /\ recorded = <<>>
    /\ ioFailures = 0
    /\ loadState = "idle"
    /\ ret = None
    /\ PickIdle
    /\ SessIdle

NextStore == SaveLastSpeed

SpecStore == InitStore /\ [][NextStore]_vars

-----------------------------------------------------------------------------
(* load_last_speed over bounded contents of the speed file *)

\* speeds found in the file
FileSpeeds == {0, 98000, 100000, 102000, 500000, 3000000, 3070000}

\* the lines the file may hold: decimal integers and one line that is not
JunkLine == <<CharMinus, Char0 + 5>>
LineUniverse == {FormatLine(v) : v \in FileSpeeds} \cup {JunkLine}

RECURSIVE SeqsUpTo(_, _)
SeqsUpTo(S, n) ==
    IF n = 0 THEN {<<>>}
    ELSE LET shorter == SeqsUpTo(S, n - 1)
         IN  shorter \cup {Append(q, x) : q \in {p \in shorter : Len(p) = n - 1}, x \in S}

InitLoad ==
    /\ fileExists \in BOOLEAN
    /\ fileLines \in (IF fileExists THEN SeqsUpTo(LineUniverse, MaxLines) ELSE {<<>>})
    /\ recorded = <<>>
    /\ ioFailures = 0
    /\ loadState = "idle"
    /\ ret = None
    /\ PickIdle
    /\ SessIdle

NextLoad == LoadLastSpeed

SpecLoad == InitLoad /\ [][NextLoad]_vars

-----------------------------------------------------------------------------
(* pick_video_format over bounded lists of streams *)

Stream(id, vcodec, height, fps, filesize, approx, tbr) ==
    [format_id |-> id, vcodec |-> vcodec, height |-> height, fps |-> fps,
     ext |-> IF vcodec = "vp9" THEN "webm" ELSE IF vcodec = "none" THEN "m4a" ELSE "mp4",
     filesize |-> filesize, filesize_approx |-> approx, tbr |-> tbr]

\* the stream descriptors a format list is drawn from
StreamUniverse ==
    { Stream("140", "none", None,       None,     Some(500000),  None,          Some(1)),
      Stream("136", "avc1", Some(720),  Some(30), Some(700000),  None,          None),
      Stream("137", "avc1", Some(1080), Some(30), Some(1000000), None,          None),
      Stream("299", "avc1", Some(1080), Some(60), Some(1100000), None,          None),
      Stream("303", "vp9",  Some(1080), Some(60), None,          None,          None),
      Stream("248", "vp9",  Some(1080), None,     None,          None,          Some(8)),
      Stream("271", "vp9",  Some(1440), Some(30), None,          Some(2000000), Some(16)),
      Stream("313", "vp9",  Some(2160), Some(60), Some(4000000), Some(4100000), None) }

InitPick ==
    /\ formats \in SeqsUpTo(StreamUniverse, MaxFormats)
    /\ duration_sec \in {None, Some(900)}
    /\ download_speed_bps \in {None, Some(100000)}
    /\ pickState = "start"
    /\ best_formats = [res \in TargetRes |-> None]
    /\ rows = <<>>
    /\ lastInput = <<>>
    /\ lastReply = "none"
    /\ chosen = None
    /\ fileExists = FALSE
    /\ fileLines = <<>>
    /\ recorded = <<>>
    /\ ioFailures = 0
    /\ loadState = "idle"
    /\ ret = None
    /\ SessIdle

NextPick == ScanAndPrint \/ ResolutionPrompt

SpecPick == InitPick /\ [][NextPick]_vars

-----------------------------------------------------------------------------
(* One run of main *)

InitSession ==
    /\ fileExists \in BOOLEAN
    /\ fileLines \in (IF fileExists THEN {<<>>, <<FormatLine(2000000)>>} ELSE {<<>>})
    /\ recorded = <<>>
    /\ ioFailures = 0
    /\ loadState = "idle"
    /\ ret = None
    /\ PickIdle
    /\ pc = "mode"
    /\ choice = <<>>
    /\ video_fmt = None
    /\ video_title = "video"
    /\ parentEntries \in SUBSET Titles
    /\ dirName = ""
    /\ dirFiles = {}
    /\ downloads = <<>>
    /\ removed = {}
    /\ mergeCalled = FALSE
    /\ nvenc = FALSE
    /\ codec_name = None
    /\ prompted = FALSE
    /\ answer = <<>>
    /\ video_codec = ""
    /\ launched = <<>>
    /\ proc = "none"
    /\ stop_thread = FALSE
    /\ eta = "none"
    /\ etaShown = FALSE
    /\ log = {}
    /\ error = "none"

NextSession ==
    \/ ModePrompt
    \/ FetchAndPick
    \/ Prepare
    \/ JoinedDownloadVideo
    \/ JoinedDownloadAudio
    \/ VideoOnlyDownload
    \/ AudioDownload
    \/ AudioConvert
    \/ MergeProbe
    \/ MergeDecide
    \/ MergePrompt
    \/ MergeStartThread
    \/ MergeLaunch
    \/ ProcWrites
    \/ TranscodeExits
    \/ MergeSetStop
    \/ MergeJoin
    \/ EtaCheck
    \/ EtaWake
    \/ RemoveTempVideo
    \/ RemoveTempAudio
    \/ RenameFolder

SpecSession == InitSession /\ [][NextSession]_vars

-----------------------------------------------------------------------------
(* Claims about the speed store *)

\* C1: starting from absent or empty storage and with no I/O failure, after N
\* calls of save_last_speed the persisted history is exactly the last
\* min(10, N) recorded speeds in insertion order; the history never holds more
\* than 10 entries (the oldest are the ones evicted).
C1_LastTenInOrder ==
    /\ Len(fileLines) <= 10
    /\ ioFailures = 0 =>
         LET N == Len(recorded)
             k == Min(10, N)
             history == ReadSpeeds(fileLines)
         IN  /\ Len(history) = k
             /\ \A i \in 1..k : history[i] = recorded[N - k + i]
             /\ (N > 0 => fileExists)

\* an eleventh speed has been saved and the first one, which differed from the
\* second, is gone
C1_Witness ==
    /\ ioFailures = 0
    /\ Len(recorded) = 11
    /\ recorded[1] # recorded[2]
    /\ Len(fileLines) = 10
    /\ ParseInt(fileLines[1]) = recorded[2]
    /\ ParseInt(fileLines[10]) = recorded[11]

\* the multiple of b nearest to s (the upper one when s is halfway)
NearestMultiple(s, b) ==
    CHOOSE m \in {k * b : k \in 0..(s \div b + 1)} : 2 * (s - m) < b /\ 2 * (m - s) <= b

\* C2: load_last_speed returns None when the storage is absent or holds no
\* samples; otherwise it returns the most frequent value after rounding each
\* sample to the nearest multiple of max(50000, 5% of the mean), and among
\* values sharing the highest count the one that occurs first in the samples.
C2_MostFrequentBin ==
    loadState = "returned" =>
        LET speeds == ReadSpeeds(fileLines)
            n == Len(speeds)
        IN  IF ~fileExists \/ n = 0 THEN ret = None
            ELSE LET five_percent == SumSeq(speeds) \div (20 * n)
                     b == IF five_percent > 50000 THEN five_percent ELSE 50000
                     binned(i) == NearestMultiple(speeds[i], b)
                     count(v) == Cardinality({i \in 1..n : binned(i) = v})
                     first(v) == CHOOSE i \in 1..n :
                                    binned(i) = v /\ \A j \in 1..(i - 1) : binned(j) # v
                 IN  /\ Len(ret) = 1
                     /\ \E i \in 1..n : binned(i) = ret[1]
                     /\ \A i \in 1..n :
                          \/ count(binned(i)) < count(ret[1])
                          \/ count(binned(i)) = count(ret[1]) /\ first(ret[1]) <= i

\* two bins tie for the highest count (500000 twice; 100000 and 98000 fall in
\* one bin) and the one seen first is returned
C2_Witness ==
    /\ loadState = "returned"
    /\ ReadSpeeds(fileLines) = <<500000, 100000, 98000, 500000>>
    /\ ret = Some(500000)

\* a file whose mean makes the bin wider than 50000
C2_WitnessWideBin ==
    /\ loadState = "returned"
    /\ ReadSpeeds(fileLines) = <<3000000, 3070000>>
    /\ ret = Some(3035000)

\* a file that exists but holds no decimal line
C2_WitnessNoSamples ==
    /\ loadState = "returned"
    /\ fileExists /\ fileLines = <<JunkLine>>
    /\ ret = None

-----------------------------------------------------------------------------
(* Claims about pick_video_format *)

BucketHeights == <<4320, 2160, 1440, 1080>>

Printed == pickState \in {"prompt", "returned"}

\* the candidate of the k-th bucket
Candidate(k) == best_formats[targets[k].res]

\* positions of the non-audio-only streams whose height is that of bucket k
Matching(k) ==
    {i \in 1..Len(formats) :
        formats[i].vcodec # "none" /\ formats[i].height = Some(BucketHeights[k])}

\* a stream's estimate: direct size, else approximate size, else
\* bitrate (kbit/s) x duration / 8, else none
HasEstimate(i) ==
    \/ formats[i].filesize # None
    \/ formats[i].filesize_approx # None
    \/ (formats[i].tbr \notin {None, Some(0)} /\ duration_sec \notin {None, Some(0)})

Estimate(i) ==
    CASE formats[i].filesize # None -> formats[i].filesize[1]
      [] formats[i].filesize = None /\ formats[i].filesize_approx # None ->
            formats[i].filesize_approx[1]
      [] OTHER -> (formats[i].tbr[1] * 1000 * duration_sec[1]) \div 8

RECURSIVE SumEstimates(_)
SumEstimates(I) ==
    IF I = {} THEN 0
    ELSE LET i == CHOOSE x \in I : TRUE IN Estimate(i) + SumEstimates(I \ {i})

\* C3: for every bucket with a candidate, the size stored on the candidate and
\* shown in its row is the arithmetic mean of the estimates of all matching
\* streams that have one (and is absent, shown "N/A", when none has).
C3_SizeIsMeanOfBucket ==
    Printed =>
        \A k \in 1..4 :
            LET E == {i \in Matching(k) : HasEstimate(i)}
            IN  Matching(k) # {} =>
                  /\ Candidate(k) # None
                  /\ IF E = {}
                       THEN /\ Candidate(k)[1].filesize = None
                            /\ rows[k].size = ShownNA
                       ELSE /\ Candidate(k)[1].filesize # None
                            /\ LET stored == Candidate(k)[1].filesize[1]
                               IN  stored.num * Cardinality(E) = stored.den * SumEstimates(E)
                            /\ rows[k].size =
                                 sizeof_fmt(Some([num |-> SumEstimates(E),
                                                  den |-> Cardinality(E)]))

\* three 1080 streams with estimates 1000000, 1100000 and (from bitrate and
\* duration) 900000: the candidate is the 60 fps one, whose own estimate is
\* 1100000, and the stored size is the mean 1000000
C3_Witness ==
    /\ Printed
    /\ Len(formats) = 3
    /\ formats[1].format_id = "137" /\ formats[2].format_id = "299"
    /\ formats[3].format_id = "248"
    /\ duration_sec = Some(900)
    /\ Candidate(4) # None
    /\ Candidate(4)[1].format_id = "299"
    /\ Candidate(4)[1].filesize = Some([num |-> 3000000, den |-> 3])
    /\ rows[4].size = ShownNumber(9766, 2)

\* the frame rate the selector compares ("fps or 0")
FrameRate(i) == IF formats[i].fps = None THEN 0 ELSE formats[i].fps[1]

\* position of the matching stream with the highest frame rate, the first one
\* among equals
BestMatch(k) ==
    CHOOSE j \in Matching(k) :
        \A i \in Matching(k) :
            FrameRate(i) < FrameRate(j) \/ (FrameRate(i) = FrameRate(j) /\ j <= i)

\* the number 1..4 a text names once surrounding blanks are dropped, else 0
MenuNumber(text) ==
    IF \E k \in 1..4 : Strip(text) = <<Char0 + k>>
      THEN CHOOSE k \in 1..4 : Strip(text) = <<Char0 + k>>
      ELSE 0

\* C4: the format returned is the candidate of the bucket the input names, that
\* bucket has a matching non-audio-only stream, and the candidate is the
\* matching stream of highest frame rate (the first among equals); an invalid
\* input or the choice of a bucket with no matching stream returns nothing and
\* leaves the selector at its prompt.
C4_ReturnsAvailableBest ==
    /\ pickState = "returned" =>
          LET k == MenuNumber(lastInput)
          IN  /\ k \in 1..4
              /\ Matching(k) # {}
              /\ chosen # None
              /\ chosen = Candidate(k)
              /\ chosen[1].format_id = formats[BestMatch(k)].format_id
              /\ chosen[1].fps = FrameRate(BestMatch(k))
    /\ pickState # "returned" => chosen = None
    /\ (lastReply # "none" /\ (MenuNumber(lastInput) = 0 \/ Matching(MenuNumber(lastInput)) = {}))
          => pickState = "prompt" /\ lastReply \in {"invalid", "unavailable"}

\* two 1080 streams at 60 fps after one at 30 fps: the first 60 fps stream is
\* returned for input "4"
C4_Witness ==
    /\ pickState = "returned"
    /\ Len(formats) = 3
    /\ formats[1].format_id = "137" /\ formats[2].format_id = "299"
    /\ formats[3].format_id = "303"
    /\ chosen # None
    /\ chosen[1].format_id = "299"

\* the bucket chosen has no stream: the selector is back at its prompt
C4_WitnessReprompt ==
    /\ pickState = "prompt"
    /\ lastReply = "unavailable"
    /\ formats # <<>>
    /\ chosen = None

\* C5 as stated: with no representative speed, all four rows show "N/A" for
\* both time estimates.
C5_AllRowsShowNA ==
    (Printed /\ download_speed_bps = None) =>
        \A k \in 1..4 : rows[k].slow = ShownNA /\ rows[k].fast = ShownNA

\* C5 amended: with no representative speed, the row of every bucket that has a
\* matching stream shows "N/A" for both time estimates, the row of every other
\* bucket shows "not available" and no time estimate, and no row shows a
\* numeric time.
C5_NoNumericTime ==
    (Printed /\ download_speed_bps = None) =>
        \A k \in 1..4 :
            IF Matching(k) # {}
              THEN rows[k].available /\ rows[k].slow = ShownNA /\ rows[k].fast = ShownNA
              ELSE ~rows[k].available /\ rows[k].slow = NotShown /\ rows[k].fast = NotShown

\* no speed, a 1080 row with a numeric size and "N/A" times, and an 8K row
\* that is "not available"
C5_Witness ==
    /\ Printed
    /\ download_speed_bps = None
    /\ rows[4].available
    /\ rows[4].size.shown = "number"
    /\ rows[4].slow = ShownNA /\ rows[4].fast = ShownNA
    /\ ~rows[1].available

-----------------------------------------------------------------------------
(* Claims about the merge, the downloads and the rename *)

\* the probe has run and the decision at lines 182-196 has been taken
Probed == mergeCalled /\ pc # "m_decide"
\* the transcode process of the path taken, if any, has been launched
PastLaunch == Probed /\ pc \notin {"m_prompt", "m_start", "m_launch"}
\* the answer given is 'y' (as the code reads it: stripped, lower-cased)
SaidYes == Lower(Strip(answer)) = <<121>>

\* C6: the path of merge_video_audio is determined by (hardware encode, probed
\* codec, answer): hardware encode with h264 or hevc remuxes by stream copy and
\* never prompts; hardware encode with any other codec or a failed probe
\* prompts, re-encodes with the hardware encoder on 'y' and launches no
\* transcode on any other answer; no hardware encode re-encodes with the
\* software encoder without prompting.
C6_MergePathDetermined ==
    Probed =>
        IF nvenc /\ codec_name \in {Some("h264"), Some("hevc")}
          THEN ~prompted /\ launched = <<"copy">>
        ELSE IF nvenc
          THEN /\ prompted = (pc # "m_prompt")
               /\ launched = IF PastLaunch /\ SaidYes THEN <<"h264_nvenc">> ELSE <<>>
               /\ (prompted /\ ~SaidYes) => (proc = "none" /\ eta = "none")
        ELSE /\ ~prompted
             /\ launched = IF PastLaunch THEN <<"libx264">> ELSE <<>>

\* hardware encode, a codec that is neither h264 nor hevc, the answer "n":
\* the merge has returned and no ffmpeg run was launched
C6_Witness ==
    /\ mergeCalled /\ pc = "rename"
    /\ nvenc /\ codec_name = Some("vp9")
    /\ prompted /\ answer = <<110>>
    /\ launched = <<>>

\* hardware encode and hevc: the remux has run, unprompted
C6_WitnessRemux ==
    /\ mergeCalled /\ pc = "rename"
    /\ nvenc /\ codec_name = Some("hevc")
    /\ ~prompted /\ launched = <<"copy">>

\* C7: when an entry named after the primary output file's base name exists
\* next to the output directory, rename_folder changes neither the directory
\* nor that entry and reports the collision; it renames only when no such
\* entry exists.
C7_RenameSkipsExisting ==
    [][ (pc = "rename" /\ pc' = "done") =>
          LET bases == {f.base : f \in Candidates(dirFiles)}
          IN  /\ (bases # {} /\ bases \subseteq parentEntries) =>
                    /\ dirName' = dirName
                    /\ parentEntries' = parentEntries
                    /\ dirFiles' = dirFiles
                    /\ "exists_skipping_rename" \in log'
              /\ dirName' # dirName =>
                    /\ dirName' \in bases
                    /\ dirName' \notin parentEntries
                    /\ "exists_skipping_rename" \notin log' ]_vars

\* the run ended with an output file whose base name was already taken: the
\* directory keeps its timestamp name and the collision was reported
C7_Witness ==
    /\ pc = "done"
    /\ final_output \in dirFiles
    /\ video_title \in parentEntries
    /\ dirName = Timestamp
    /\ "exists_skipping_rename" \in log

\* C8: once the transcode process has exited, with success or with an error,
\* the ETA thread ends: "Merge completed" is reported only after the thread
\* has ended, and an error raised by the transcode leaves no thread running.
C8_NoEtaThreadLeftRunning ==
    /\ "merge_completed" \in log => eta = "done"
    /\ (pc = "raised" /\ proc = "failed") => eta \in {"none", "done"}

\* what each mode is to download
ExpectedDownloads ==
    IF ModeIs(1) \/ ModeIs(2) THEN <<"video", "audio">>
    ELSE IF ModeIs(3) THEN <<"video">>
    ELSE <<"audio">>

\* C9: the streams downloaded match the mode: modes 1 and 2 download the video
\* stream and then the audio stream, mode 3 only the video stream, mode 4 only
\* the audio stream; the merge runs only in mode 1.
C9_DownloadsMatchMode ==
    /\ mergeCalled => ModeIs(1)
    /\ pc \in {"rename", "done"} => downloads = ExpectedDownloads

\* C10: in joined mode the temporary video and audio files are deleted only
\* after the merge has produced the final output file.
C10_TempsOutliveMerge ==
    (do_join /\ removed # {}) => final_output \in dirFiles

====
